---------------------------- MODULE Spec2Model ----------------------------
(***************************************************************************)
(* Citation highlights of the financial-document workspace.                *)
(*                                                                         *)
(* The parts modelled, each with a specification of its own:               *)
(*  - the PDF viewer (PDFViewer.tsx, with the citation-loading effect of   *)
(*    Claude_Citations2.md): the active document, the user highlights kept *)
(*    in component state, the AI highlights handed in as a property, the   *)
(*    citation fetches in flight, and the merged list given to the         *)
(*    highlighter;                                                         *)
(*  - the citation extraction of the language-model service                *)
(*    (_extract_citations_from_response / _convert_citation_from_dict);    *)
(*  - the polling loop that waits for an uploaded document to be processed *)
(*    (uploadAndVerifyDocument of Claude_Citations2.md);                   *)
(*  - the upload form with the upload-and-verify call it makes             *)
(*    (UploadForm, documentsApi.uploadAndVerifyDocument);                  *)
(*  - the chat of the workspace (Workspace, ChatInterface.handleSubmit).   *)
(***************************************************************************)
EXTENDS Integers, Sequences, FiniteSets, TLC

(* ------------------------------ bounds -------------------------------- *)
\* fetchDocumentData runs started in one behaviour
MaxFetch == 2
\* citations in one response of getDocumentCitations
MaxBatch == 2
\* user highlights saved in one behaviour
MaxUser == 1

(* ------------------------------ domains ------------------------------- *)
NoDoc == 0
Docs == {1, 2}
Pages == {1, 2}
\* highlight ids; a user highlight takes the value of the clock as its id
Ids == {1, 2}

\* Citation of types/index.ts, cut down to the fields convertCitationToHighlight reads
\* (rects is the length of the rects array): two citations that share a highlightId
\* on different pages, and one with its own id and an empty rects array
Citation ==
  { [highlightId |-> 1, page |-> 1, rects |-> 1],
    [highlightId |-> 1, page |-> 2, rects |-> 1],
    [highlightId |-> 2, page |-> 2, rects |-> 0] }

RECURSIVE SeqsUpTo(_, _)
SeqsUpTo(S, n) ==
  IF n = 0 THEN {<<>>}
  ELSE LET shorter == SeqsUpTo(S, n - 1)
       IN  shorter \cup {Append(s, x) : s \in {t \in shorter : Len(t) = n - 1}, x \in S}

\* the responses getDocumentCitations can give
Batches == SeqsUpTo(Citation, MaxBatch)

VARIABLES
  document,        \* PDFViewer prop: id of the document shown, NoDoc when none
  pdfUrl,          \* PDFViewer state: the document whose URL is loaded, NoDoc for null
  errorState,      \* PDFViewer state: TRUE when an error text is set
  currentPage,     \* PDFViewer state
  userHighlights,  \* PDFViewer state
  aiHighlights,    \* PDFViewer prop, set by the owner from onCitationsLoaded
  inflight,        \* running fetchDocumentData calls: [seq, doc, stage]
  nextSeq,         \* order in which the fetchDocumentData calls were started
  appliedSeq,      \* seq of the call whose highlights were last handed to onCitationsLoaded
  lastBatch,       \* the citations of that call
  clock,           \* Date.now()
  createdCitations,\* arguments of the onCitationCreate calls so far
  raw,             \* service: the citations of a model response, in the order visited
  extractedCitations, \* service: the list _extract_citations_from_response returned
  extracted,       \* service: TRUE once the response has been extracted
  converted        \* service: per raw citation, the results of its conversions so far, in call order

viewVars == <<document, pdfUrl, errorState, currentPage, userHighlights, aiHighlights,
              inflight, nextSeq, appliedSeq, lastBatch, clock, createdCitations>>

normVars == <<raw, extractedCitations, extracted, converted>>

VARIABLES
  pollPc,             \* md uploadAndVerifyDocument: where the call stands
  attempts,           \* its local attempts
  processingComplete, \* its local processingComplete
  polledDocument,     \* its local document: "null" or the processing status it was built with
  statusChecks,       \* number of GET /documents/{id} requests the loop has made
  pollOutcome         \* how the call ended

pollVars == <<pollPc, attempts, processingComplete, polledDocument, statusChecks, pollOutcome>>

VARIABLES
  file,               \* UploadForm state: the file held, NoFile for null
  isUploading,        \* UploadForm state
  progress,           \* UploadForm state
  error,              \* UploadForm state: "null" or the error text
  intervals,          \* progress intervals set and not cleared
  resetPending,       \* the 1000 ms reset timer of a finished upload is set
  uvPc,               \* part_002 uploadAndVerifyDocument: where the call stands
  lastCheck,          \* hasFinancialData of its latest checkDocumentFinancialData
  uvReturned,         \* the document the call returned
  uploadCalls         \* the files uploadAndVerifyDocument was called with

uploadVars == <<file, isUploading, progress, error, intervals, resetPending,
                uvPc, lastCheck, uvReturned, uploadCalls>>

VARIABLES
  messages,           \* Workspace state: the chat messages, oldest first
  isLoading,          \* Workspace state: the loading indicator of the chat
  sessionId,          \* Workspace state: "null" or the id of the conversation
  initPending,        \* initSession is waiting for createConversation
  inputValue,         \* ChatInterface state: TRUE when the text is not blank
  isSubmitting,       \* ChatInterface state
  sendPending,        \* handleSendMessage is waiting for conversationApi.sendMessage
  sends,              \* number of handleSendMessage calls so far
  mockTimers,         \* the sends whose 1000 ms mock-response timer is set
  selectedDocument,   \* Workspace state: id of the selected document, NoDoc for null
  showUploadForm,     \* Workspace state
  uploadErrors        \* number of handleUploadError calls so far

chatVars == <<messages, isLoading, sessionId, initPending, inputValue, isSubmitting,
              sendPending, sends, mockTimers, selectedDocument, showUploadForm,
              uploadErrors>>

VARIABLES
  API_BASE_URL,       \* conversation.ts: the base URL read from the environment
  reqPc,              \* request: "idle", or "fetch" while fetch(finalUrl, options) is awaited
  endpoint,           \* request: its endpoint, after the leading slash was ensured
  finalUrl,           \* request: the URL handed to fetch
  options,            \* request: the RequestInit handed to fetch
  reqResult           \* request: "none", "returned", or what the thrown Error carries

reqVars == <<API_BASE_URL, reqPc, endpoint, finalUrl, options, reqResult>>

VARIABLES
  vfPc,               \* verifyDocumentFinancialData: "idle", "check" or "process" (its awaits)
  retryExtraction,    \* verifyDocumentFinancialData: its second argument
  checkedDocInfo,     \* checkDocumentFinancialData: the answer to its GET /documents/{id}
  checkResult,        \* verifyDocumentFinancialData: what checkDocumentFinancialData returned
  processPosts,       \* number of POST /documents/{id}/process requests of this call
  verifyResult        \* verifyDocumentFinancialData: the object it returned

verifyVars == <<vfPc, retryExtraction, checkedDocInfo, checkResult, processPosts, verifyResult>>

VARIABLES
  raPc,                          \* runAnalysis: "idle", "precheck" or "post" (its awaits)
  documentIds,                   \* runAnalysis: its first argument
  checkedCount,                  \* runAnalysis: number of documents the loop has fetched
  documentsWithFinancialData,    \* runAnalysis: local list
  documentsWithoutFinancialData, \* runAnalysis: local list
  analysisRequest,               \* the body posted to /analysis/run, if one was posted
  analysisResult                 \* what runAnalysis returned or that it threw

runVars == <<raPc, documentIds, checkedCount, documentsWithFinancialData,
             documentsWithoutFinancialData, analysisRequest, analysisResult>>

\* the state of the API clients
apiVars == <<reqVars, verifyVars, runVars>>

\* the state of everything but the viewer and the citation extraction
restVars == <<pollVars, uploadVars, chatVars, apiVars>>

vars == <<viewVars, normVars, restVars>>

\* no upload is being polled for
PollInit ==
  /\ pollPc = "idle"
  /\ attempts = 0
  /\ processingComplete = FALSE
  /\ polledDocument = "null"
  /\ statusChecks = 0
  /\ pollOutcome = "none"

\* file === null (and e.target.files?.[0] undefined)
NoFile == [type |-> "none", size |-> 0]

\* the form as mounted (useState initial values), no upload running
UploadInit ==
  /\ file = NoFile
  /\ isUploading = FALSE
  /\ progress = 0
  /\ error = "null"
  /\ intervals = 0
  /\ resetPending = FALSE
  /\ uvPc = "idle"
  /\ lastCheck = "none"
  /\ uvReturned = "none"
  /\ uploadCalls = <<>>

\* the workspace as mounted: the effect has called initSession, which has set the
\* loading indicator and waits for createConversation
ChatInit ==
  /\ messages = <<>>
  /\ isLoading = TRUE
  /\ sessionId = "null"
  /\ initPending = TRUE
  /\ inputValue = FALSE
  /\ isSubmitting = FALSE
  /\ sendPending = FALSE
  /\ sends = 0
  /\ mockTimers = {}
  /\ selectedDocument = NoDoc
  /\ showUploadForm = FALSE
  /\ uploadErrors = 0

\* a URL is the sequence of its characters; "H" stands for http://localhost:8000
Host == <<"H">>

\* RequestInit before method, headers and body are set
NoOptions == [method |-> "none", contentType |-> FALSE, body |-> "none"]

\* no request was made yet
ReqIdle ==
  /\ reqPc = "idle"
  /\ endpoint = <<>>
  /\ finalUrl = <<>>
  /\ options = NoOptions
  /\ reqResult = "none"

\* no answer to GET /documents/{id} yet
NoDocInfo ==
  [ok |-> FALSE, processing_status |-> "none", extracted_data |-> FALSE,
   raw_text |-> FALSE, financial_data |-> "absent", content_type |-> "none"]

NoCheck == [hasFinancialData |-> FALSE, diagnosis |-> "none"]

NoResult == [success |-> FALSE, message |-> "none"]

\* verifyDocumentFinancialData was not called yet
VerifyIdle ==
  /\ vfPc = "idle"
  /\ retryExtraction = FALSE
  /\ checkedDocInfo = NoDocInfo
  /\ checkResult = NoCheck
  /\ processPosts = 0
  /\ verifyResult = NoResult

\* nothing was posted to /analysis/run
NoRequest == [sent |-> FALSE, document_ids |-> <<>>]

\* runAnalysis has not returned
NoAnalysis ==
  [kind |-> "none", documentIds |-> <<>>, metrics |-> "none", ratios |-> "none", note |-> 0]

\* runAnalysis was not called yet
RunIdle ==
  /\ raPc = "idle"
  /\ documentIds = <<>>
  /\ checkedCount = 0
  /\ documentsWithFinancialData = <<>>
  /\ documentsWithoutFinancialData = <<>>
  /\ analysisRequest = NoRequest
  /\ analysisResult = NoAnalysis

\* NEXT_PUBLIC_API_BASE_URL is not set
ApiInit ==
  /\ API_BASE_URL = Host
  /\ ReqIdle
  /\ VerifyIdle
  /\ RunIdle

RestInit == PollInit /\ UploadInit /\ ChatInit /\ ApiInit

(* ------------------------------ PDFViewer ----------------------------- *)

\* position.rects is citation.rects; an empty array gives the all-zero boundingRect
convertCitationToHighlight(citation) ==
  [id |-> citation.highlightId, pageNumber |-> citation.page, rects |-> citation.rects]

\* citations.map(convertCitationToHighlight)
highlightsFromCitations(citations) ==
  [i \in 1..Len(citations) |-> convertCitationToHighlight(citations[i])]

\* the merge with the two parts swapped
allHighlightsAiFirst == aiHighlights \o userHighlights

\* const allHighlights = [...userHighlights, ...aiHighlights]
allHighlights == userHighlights \o aiHighlights

\* aiHighlights.some(h => h.id === highlight.id)
isAIHighlight(highlight) ==
  \E i \in 1..Len(aiHighlights) : aiHighlights[i].id = highlight.id

\* The owner's onCitationsLoaded handler: the highlights it is called with become the
\* aiHighlights property (full replace); it is handed nothing but the highlights.
onCitationsLoaded(current, highlights) == highlights

\* the viewer is rendered only past the loading / error / empty returns
viewerShown == document # NoDoc /\ pdfUrl # NoDoc /\ ~errorState

ViewInit ==
  /\ document = NoDoc
  /\ pdfUrl = NoDoc
  /\ errorState = FALSE
  /\ currentPage = 1
  /\ userHighlights = <<>>
  /\ aiHighlights = <<>>
  /\ inflight = {}
  /\ nextSeq = 1
  /\ appliedSeq = 0
  /\ lastBatch = <<>>
  /\ clock = 1
  /\ createdCitations = <<>>

\* no response is being handled by the service
Init ==
  /\ ViewInit
  /\ raw = <<>>
  /\ extractedCitations = <<>>
  /\ extracted = FALSE
  /\ converted = <<>>
  /\ RestInit

\* the document prop changes: the effect starts fetchDocumentData for it
LoadDocument(d) ==
  /\ nextSeq <= MaxFetch
  /\ document' = d
  /\ inflight' = inflight \cup {[seq |-> nextSeq, doc |-> d, stage |-> "url"]}
  /\ nextSeq' = nextSeq + 1
  /\ UNCHANGED <<pdfUrl, errorState, currentPage, userHighlights, aiHighlights,
                 appliedSeq, lastBatch, clock, createdCitations>>
  /\ UNCHANGED <<normVars, restVars>>

\* await documentsApi.getDocumentUrl(...) returns: setPdfUrl(url)
UrlResolved(f) ==
  /\ f \in inflight
  /\ f.stage = "url"
  /\ pdfUrl' = f.doc
  /\ inflight' = (inflight \ {f}) \cup {[f EXCEPT !.stage = "citations"]}
  /\ UNCHANGED <<document, errorState, currentPage, userHighlights, aiHighlights,
                 nextSeq, appliedSeq, lastBatch, clock,
                 createdCitations>>
  /\ UNCHANGED <<normVars, restVars>>

\* the delivery, had the viewer kept one highlight list and replaced all of it
CitationsResolvedOneList(f, citations) ==
  /\ f \in inflight
  /\ f.stage = "citations"
  /\ aiHighlights' = onCitationsLoaded(aiHighlights, highlightsFromCitations(citations))
  /\ userHighlights' = <<>>
  /\ appliedSeq' = f.seq
  /\ lastBatch' = citations
  /\ inflight' = inflight \ {f}
  /\ UNCHANGED <<document, pdfUrl, errorState, currentPage,
                 nextSeq, clock, createdCitations>>
  /\ UNCHANGED <<normVars, restVars>>

\* await documentsApi.getDocumentCitations(...) returns: onCitationsLoaded(highlights)
CitationsResolved(f, citations) ==
  /\ f \in inflight
  /\ f.stage = "citations"
  /\ aiHighlights' = onCitationsLoaded(aiHighlights, highlightsFromCitations(citations))
  /\ appliedSeq' = f.seq
  /\ lastBatch' = citations
  /\ inflight' = inflight \ {f}
  /\ UNCHANGED <<document, pdfUrl, errorState, currentPage, userHighlights,
                 nextSeq, clock, createdCitations>>
  /\ UNCHANGED <<normVars, restVars>>

\* either await throws: setErrorState("Failed to load document...")
FetchFailed(f) ==
  /\ f \in inflight
  /\ errorState' = TRUE
  /\ inflight' = inflight \ {f}
  /\ UNCHANGED <<document, pdfUrl, currentPage, userHighlights, aiHighlights,
                 nextSeq, appliedSeq, lastBatch, clock,
                 createdCitations>>
  /\ UNCHANGED <<normVars, restVars>>

\* the save, had the viewer kept one highlight list and started it anew
addHighlightOneList(page) ==
  /\ viewerShown
  /\ Len(userHighlights) < MaxUser
  /\ LET highlight == [id |-> clock, pageNumber |-> page, rects |-> 1]
     IN  /\ userHighlights' = Append(userHighlights, highlight)
         /\ createdCitations' = Append(createdCitations,
               [id |-> highlight.id, highlightId |-> highlight.id,
                page |-> highlight.pageNumber])
  /\ aiHighlights' = <<>>
  /\ clock' = clock + 1
  /\ UNCHANGED <<document, pdfUrl, errorState, currentPage,
                 inflight, nextSeq, appliedSeq, lastBatch>>
  /\ UNCHANGED <<normVars, restVars>>

\* "Save Highlight": addHighlight({id: `highlight-${Date.now()}`, ...})
addHighlight(page) ==
  /\ viewerShown
  /\ Len(userHighlights) < MaxUser
  /\ LET highlight == [id |-> clock, pageNumber |-> page, rects |-> 1]
     IN  /\ userHighlights' = Append(userHighlights, highlight)
         /\ createdCitations' = Append(createdCitations,
               [id |-> highlight.id, highlightId |-> highlight.id,
                page |-> highlight.pageNumber])
  /\ clock' = clock + 1
  /\ UNCHANGED <<document, pdfUrl, errorState, currentPage, aiHighlights,
                 inflight, nextSeq, appliedSeq, lastBatch>>
  /\ UNCHANGED <<normVars, restVars>>

\* allHighlights.find(h => h.id === highlightId)
findHighlight(highlightId) ==
  LET hits == {i \in 1..Len(allHighlights) : allHighlights[i].id = highlightId}
  IN  IF hits = {} THEN 0 ELSE CHOOSE i \in hits : \A j \in hits : i <= j

\* the value scrollToHighlight returns: true when the highlight was found
scrollToHighlightReturns(highlightId) == findHighlight(highlightId) # 0

\* the navigation, had it gone back to the first page for an id it does not find
scrollToHighlightResetting(highlightId) ==
  /\ viewerShown
  /\ LET i == findHighlight(highlightId)
     IN  IF i # 0
         THEN currentPage' = allHighlights[i].pageNumber
         ELSE currentPage' = 1
  /\ UNCHANGED <<document, pdfUrl, errorState, userHighlights, aiHighlights,
                 inflight, nextSeq, appliedSeq, lastBatch, clock,
                 createdCitations>>
  /\ UNCHANGED <<normVars, restVars>>

scrollToHighlight(highlightId) ==
  /\ viewerShown
  /\ LET i == findHighlight(highlightId)
     IN  IF i # 0
         THEN currentPage' = allHighlights[i].pageNumber
         ELSE currentPage' = currentPage
  /\ UNCHANGED <<document, pdfUrl, errorState, userHighlights, aiHighlights,
                 inflight, nextSeq, appliedSeq, lastBatch, clock,
                 createdCitations>>
  /\ UNCHANGED <<normVars, restVars>>

Next ==
  \/ \E d \in Docs : LoadDocument(d)
  \/ \E f \in inflight : UrlResolved(f)
  \/ \E f \in inflight, citations \in Batches :
       CitationsResolved(f, citations)
  \/ \E f \in inflight : FetchFailed(f)
  \/ \E page \in Pages : addHighlight(page)
  \/ \E highlightId \in Ids : scrollToHighlight(highlightId)

Spec == Init /\ [][Next]_vars

(* ------------------ citation extraction of the service ---------------- *)

\* citations of one response
MaxRaw == 2
\* conversions of one raw citation
MaxCalls == 2

\* a key the raw citation does not have
Absent == -1

Kinds == {"char_location", "page_location", "content_block_location"}

\* Raw citations as the model's response carries them: a dict with or without a type
\* and with or without the start and end key of its kind, or something that is no dict.
\* cited_text, document_title and document_index are carried through unchanged.
RawCitation ==
  [isDict : {TRUE}, type : Kinds, start : {Absent, 1}, end : {Absent, 1, 2}]
    \cup [isDict : {TRUE}, type : {"bogus", "absent"}, start : {Absent}, end : {Absent}]
    \cup [isDict : {FALSE}, type : {"absent"}, start : {Absent}, end : {Absent}]

RawBatches == SeqsUpTo(RawCitation, MaxRaw)

\* the {} returned from the except branch
EmptyDict == <<>>

\* dict.get(key, default)
get(value, default) == IF value = Absent THEN default ELSE value

\* _convert_citation_from_dict; start and end stand for the start_* and end_* key
\* of the citation's own kind
_convert_citation_from_dict(citation) ==
  IF ~citation.isDict THEN EmptyDict
  ELSE LET type == IF citation.type = "absent" THEN "unknown" ELSE citation.type
       IN  CASE type = "char_location" ->
                  [type |-> type, cited_text |-> "t", document_title |-> "d",
                   start |-> get(citation.start, 0), end |-> get(citation.end, 0),
                   document_index |-> 0]
             [] type = "page_location" ->
                  [type |-> type, cited_text |-> "t", document_title |-> "d",
                   start |-> get(citation.start, 1), end |-> get(citation.end, 1),
                   document_index |-> 0]
             [] type = "content_block_location" ->
                  [type |-> type, cited_text |-> "t", document_title |-> "d",
                   start |-> get(citation.start, 0), end |-> get(citation.end, 0),
                   document_index |-> 0]
             [] OTHER ->
                  [type |-> type, cited_text |-> "t", document_title |-> "d"]

Range(seq) == {seq[i] : i \in 1..Len(seq)}

\* the extraction without the membership test
RECURSIVE extractKeepingDuplicates(_)
extractKeepingDuplicates(rawList) ==
  IF rawList = <<>> THEN <<>>
  ELSE LET before == extractKeepingDuplicates(SubSeq(rawList, 1, Len(rawList) - 1))
           citation_dict == _convert_citation_from_dict(rawList[Len(rawList)])
       IN  IF citation_dict # EmptyDict
           THEN Append(before, citation_dict)
           ELSE before

\* the loop of _extract_citations_from_response over the citations of the blocks:
\*   if citation_dict and citation_dict not in citations: citations.append(citation_dict)
RECURSIVE _extract_citations_from_response(_)
_extract_citations_from_response(rawList) ==
  IF rawList = <<>> THEN <<>>
  ELSE LET before == _extract_citations_from_response(SubSeq(rawList, 1, Len(rawList) - 1))
           citation_dict == _convert_citation_from_dict(rawList[Len(rawList)])
       IN  IF citation_dict # EmptyDict /\ citation_dict \notin Range(before)
           THEN Append(before, citation_dict)
           ELSE before

\* a response has arrived at the service
NormInit ==
  /\ ViewInit
  /\ raw \in RawBatches
  /\ extractedCitations = <<>>
  /\ extracted = FALSE
  /\ converted = [i \in 1..Len(raw) |-> <<>>]
  /\ RestInit

\* the conversion, had it filled the defaults into the raw citation (dict.setdefault)
ConvertCitationSetDefault(i) ==
  /\ i \in 1..Len(raw)
  /\ Len(converted[i]) < MaxCalls
  /\ converted' = [converted EXCEPT ![i] = Append(@, _convert_citation_from_dict(raw[i]))]
  /\ raw' = [raw EXCEPT ![i] =
               IF raw[i].isDict /\ raw[i].type \in Kinds
               THEN [raw[i] EXCEPT !.start = get(@, IF raw[i].type = "page_location" THEN 1 ELSE 0),
                                   !.end = get(@, IF raw[i].type = "page_location" THEN 1 ELSE 0)]
               ELSE raw[i]]
  /\ UNCHANGED <<extractedCitations, extracted>>
  /\ UNCHANGED <<viewVars, restVars>>

\* one call of _convert_citation_from_dict on the i-th raw citation
ConvertCitation(i) ==
  /\ i \in 1..Len(raw)
  /\ Len(converted[i]) < MaxCalls
  /\ converted' = [converted EXCEPT ![i] = Append(@, _convert_citation_from_dict(raw[i]))]
  /\ UNCHANGED <<raw, extractedCitations, extracted>>
  /\ UNCHANGED <<viewVars, restVars>>

\* one call of _extract_citations_from_response on the response
ExtractCitations ==
  /\ ~extracted
  /\ extractedCitations' = _extract_citations_from_response(raw)
  /\ extracted' = TRUE
  /\ UNCHANGED <<raw, converted>>
  /\ UNCHANGED <<viewVars, restVars>>

NormNext ==
  \/ \E i \in 1..MaxRaw : ConvertCitation(i)
  \/ ExtractCitations

SpecNorm == NormInit /\ [][NormNext]_vars

(* ------------- waiting for a document to be processed ----------------- *)
(* uploadAndVerifyDocument of Claude_Citations2.md: upload, then poll the  *)
(* document's status until it is processed, then check its financial data. *)

\* const maxAttempts = 20
maxAttempts == 20

\* what GET /documents/{id} can answer: a status that is not ok (404 or another),
\* a rejected fetch, or a document with one of the processing statuses
StatusAnswers == {"404", "500", "rejected", "pending", "processing", "completed", "failed"}

\* uploadAndVerifyDocument(file) is called: POST /documents/upload is sent
PollCall ==
  /\ pollPc = "idle"
  /\ pollPc' = "upload"
  /\ UNCHANGED <<attempts, processingComplete, polledDocument, statusChecks, pollOutcome>>
  /\ UNCHANGED <<viewVars, normVars, uploadVars, chatVars, apiVars>>

\* the upload response arrives; not ok throws, ok sets up the loop's locals
PollUploaded(ok) ==
  /\ pollPc = "upload"
  /\ IF ok
     THEN /\ pollPc' = "head"
          /\ pollOutcome' = pollOutcome
     ELSE /\ pollPc' = "done"
          /\ pollOutcome' = "uploadError"
  /\ attempts' = 0
  /\ processingComplete' = FALSE
  /\ polledDocument' = "null"
  /\ UNCHANGED statusChecks
  /\ UNCHANGED <<viewVars, normVars, uploadVars, chatVars, apiVars>>

\* the loop head with one attempt more allowed
PollLoopOneMore ==
  /\ pollPc = "head"
  /\ IF ~processingComplete /\ attempts <= maxAttempts
     THEN /\ attempts' = attempts + 1
          /\ pollPc' = "delay"
          /\ pollOutcome' = pollOutcome
     ELSE /\ attempts' = attempts
          /\ IF polledDocument = "null"
             THEN pollPc' = "done" /\ pollOutcome' = "timeout"
             ELSE pollPc' = "verify" /\ pollOutcome' = pollOutcome
  /\ UNCHANGED <<processingComplete, polledDocument, statusChecks>>
  /\ UNCHANGED <<viewVars, normVars, uploadVars, chatVars, apiVars>>

\* while (!processingComplete && attempts < maxAttempts) { attempts++; await delay ...
\* and, past the loop, if (!document) throw new Error('Document processing timed out')
PollLoop ==
  /\ pollPc = "head"
  /\ IF ~processingComplete /\ attempts < maxAttempts
     THEN /\ attempts' = attempts + 1
          /\ pollPc' = "delay"
          /\ pollOutcome' = pollOutcome
     ELSE /\ attempts' = attempts
          /\ IF polledDocument = "null"
             THEN pollPc' = "done" /\ pollOutcome' = "timeout"
             ELSE pollPc' = "verify" /\ pollOutcome' = pollOutcome
  /\ UNCHANGED <<processingComplete, polledDocument, statusChecks>>
  /\ UNCHANGED <<viewVars, normVars, uploadVars, chatVars, apiVars>>

\* the 1500 ms timer fires: fetch(`${API_BASE_URL}/documents/${documentId}`) is sent
PollTimer ==
  /\ pollPc = "delay"
  /\ pollPc' = "fetch"
  /\ statusChecks' = statusChecks + 1
  /\ UNCHANGED <<attempts, processingComplete, polledDocument, pollOutcome>>
  /\ UNCHANGED <<viewVars, normVars, uploadVars, chatVars, apiVars>>

\* the status request is answered
PollAnswer(answer) ==
  /\ pollPc = "fetch"
  /\ CASE answer = "404" ->
            \* continue
            /\ pollPc' = "head"
            /\ UNCHANGED <<processingComplete, polledDocument, pollOutcome>>
       [] answer \in {"500", "rejected"} ->
            \* throw new Error(errorData.detail || 'Failed to check document status')
            /\ pollPc' = "done"
            /\ pollOutcome' = "statusError"
            /\ UNCHANGED <<processingComplete, polledDocument>>
       [] answer \in {"completed", "failed"} ->
            /\ processingComplete' = TRUE
            /\ polledDocument' = answer
            /\ pollPc' = "head"
            /\ UNCHANGED pollOutcome
       [] OTHER ->
            /\ pollPc' = "head"
            /\ UNCHANGED <<processingComplete, polledDocument, pollOutcome>>
  /\ UNCHANGED <<attempts, statusChecks>>
  /\ UNCHANGED <<viewVars, normVars, uploadVars, chatVars, apiVars>>

\* checkDocumentFinancialData has answered: the document is returned
PollVerified ==
  /\ pollPc = "verify"
  /\ pollPc' = "done"
  /\ pollOutcome' = "document"
  /\ UNCHANGED <<attempts, processingComplete, polledDocument, statusChecks>>
  /\ UNCHANGED <<viewVars, normVars, uploadVars, chatVars, apiVars>>

\* the steps of a call that has been made
PollSteps ==
  \/ \E ok \in BOOLEAN : PollUploaded(ok)
  \/ PollLoop
  \/ PollTimer
  \/ \E answer \in StatusAnswers : PollAnswer(answer)
  \/ PollVerified

PollNext ==
  \/ PollCall
  \/ PollSteps

SpecPoll == Init /\ [][PollNext]_vars

\* timers fire and every request is answered or rejected
SpecPollLive == SpecPoll /\ WF_vars(PollSteps)

(* ----------------- the upload form and its upload call ---------------- *)
(* UploadForm (part_000) and documentsApi.uploadAndVerifyDocument with the  *)
(* financial-data checks it makes (part_002).                               *)

\* uploads started in one behaviour
MaxUploads == 2

\* 10 * 1024 * 1024 of handleFileChange
maxFileSize == 10 * 1024 * 1024

\* the files a user can pick: a PDF or not, below, at and above the size limit
Files == [type : {"application/pdf", "image/png"},
          size : {1, maxFileSize, maxFileSize + 1}]

\* what GET /documents/{id} gives checkDocumentFinancialData: a failed request, or
\* the document with its processing status, with or without extracted_data, a
\* non-empty raw_text and an absent, empty or filled financial_data
DocInfo ==
  {[ok |-> FALSE, processing_status |-> "completed", extracted_data |-> FALSE,
    raw_text |-> FALSE, financial_data |-> "absent", content_type |-> "other"]}
  \cup {d \in [ok : {TRUE}, processing_status : {"completed", "processing"},
               extracted_data : BOOLEAN, raw_text : BOOLEAN,
               financial_data : {"absent", "empty", "filled"},
               content_type : {"balance_sheet", "other"}] :
          ~d.extracted_data => (~d.raw_text /\ d.financial_data = "absent")}

checkDocumentFinancialData(docInfo) ==
  IF ~docInfo.ok
  THEN [hasFinancialData |-> FALSE, diagnosis |-> "Error retrieving document"]
  ELSE IF docInfo.processing_status # "completed"
  THEN [hasFinancialData |-> FALSE, diagnosis |-> "Document is still being processed"]
  ELSE IF ~docInfo.extracted_data
  THEN [hasFinancialData |-> FALSE, diagnosis |-> "Document has no extracted data"]
  ELSE LET hasRawText == docInfo.raw_text
           financialDataExists == docInfo.financial_data # "absent"
           hasFinancialData == financialDataExists /\ docInfo.financial_data = "filled"
           isFinancialDocument ==
             docInfo.content_type \in {"financial_report", "balance_sheet",
                                       "income_statement", "cash_flow"}
       IN  [hasFinancialData |-> hasFinancialData,
            diagnosis |->
              IF ~hasRawText THEN "Document has no extracted text"
              ELSE IF ~financialDataExists THEN "Document has no financial_data field"
              ELSE IF ~hasFinancialData THEN "Document has an empty financial data structure"
              ELSE IF ~isFinancialDocument THEN "Document was not classified as a financial document"
              ELSE "Document has valid financial data"]

\* hasFinancialData of a check, as lastCheck keeps it
checked(docInfo) ==
  IF checkDocumentFinancialData(docInfo).hasFinancialData THEN "positive" ELSE "negative"

\* the file input, had it tested the size alone
handleFileChangeAnyType(selectedFile) ==
  /\ file = NoFile
  /\ ~isUploading
  /\ IF selectedFile = NoFile
     THEN UNCHANGED <<file, error>>
     ELSE IF selectedFile.size > maxFileSize
     THEN error' = "File size must be less than 10MB" /\ file' = file
     ELSE file' = selectedFile /\ error' = "null"
  /\ UNCHANGED <<isUploading, progress, intervals, resetPending,
                 uvPc, lastCheck, uvReturned, uploadCalls>>
  /\ UNCHANGED <<viewVars, normVars, pollVars, chatVars, apiVars>>

\* the file input (rendered while no file is held, disabled while uploading) changes
handleFileChange(selectedFile) ==
  /\ file = NoFile
  /\ ~isUploading
  /\ IF selectedFile = NoFile
     THEN UNCHANGED <<file, error>>
     ELSE IF selectedFile.type # "application/pdf"
     THEN error' = "Only PDF files are supported" /\ file' = file
     ELSE IF selectedFile.size > maxFileSize
     THEN error' = "File size must be less than 10MB" /\ file' = file
     ELSE file' = selectedFile /\ error' = "null"
  /\ UNCHANGED <<isUploading, progress, intervals, resetPending,
                 uvPc, lastCheck, uvReturned, uploadCalls>>
  /\ UNCHANGED <<viewVars, normVars, pollVars, chatVars, apiVars>>

\* the Cancel button next to Upload: setFile(null)
cancelFile ==
  /\ file # NoFile
  /\ ~isUploading
  /\ file' = NoFile
  /\ UNCHANGED <<isUploading, progress, error, intervals, resetPending,
                 uvPc, lastCheck, uvReturned, uploadCalls>>
  /\ UNCHANGED <<viewVars, normVars, pollVars, chatVars, apiVars>>

\* the Upload button (rendered while a file is held and no upload runs): handleUpload
\* up to its await, uploadAndVerifyDocument(file) up to the await of uploadDocument
handleUpload ==
  /\ file # NoFile
  /\ ~isUploading
  /\ Len(uploadCalls) < MaxUploads
  /\ isUploading' = TRUE
  /\ error' = "null"
  /\ intervals' = intervals + 1
  /\ uploadCalls' = Append(uploadCalls, file)
  /\ uvPc' = "upload"
  /\ lastCheck' = "none"
  /\ uvReturned' = "none"
  /\ UNCHANGED <<file, progress, resetPending>>
  /\ UNCHANGED <<viewVars, normVars, pollVars, chatVars, apiVars>>

\* the interval as it was before its limit was lowered from 90 to 75
progressTickTo90 ==
  /\ intervals > 0
  /\ progress' = IF progress < 90 THEN progress + 5 ELSE progress
  /\ UNCHANGED <<file, isUploading, error, intervals, resetPending,
                 uvPc, lastCheck, uvReturned, uploadCalls>>
  /\ UNCHANGED <<viewVars, normVars, pollVars, chatVars, apiVars>>

\* a progress interval fires: setProgress(prev => prev < 75 ? prev + 5 : prev)
progressTick ==
  /\ intervals > 0
  /\ progress' = IF progress < 75 THEN progress + 5 ELSE progress
  /\ UNCHANGED <<file, isUploading, error, intervals, resetPending,
                 uvPc, lastCheck, uvReturned, uploadCalls>>
  /\ UNCHANGED <<viewVars, normVars, pollVars, chatVars, apiVars>>

\* uploadAndVerifyDocument returns doc: handleUpload past its await
uploadReturned(doc) ==
  /\ uvPc' = "idle"
  /\ uvReturned' = doc
  /\ progress' = 100
  /\ intervals' = intervals - 1
  /\ resetPending' = TRUE
  /\ UNCHANGED <<file, isUploading, error, uploadCalls>>

\* uploadAndVerifyDocument throws: the catch of handleUpload
uploadThrew ==
  /\ uvPc' = "idle"
  /\ error' = "Failed to upload document"
  /\ isUploading' = FALSE
  /\ progress' = 0
  /\ UNCHANGED <<file, intervals, resetPending, uvReturned, uploadCalls>>

\* uploadDocument(file) has answered; with the document, checkDocumentFinancialData is awaited
uvUploaded(ok) ==
  /\ uvPc = "upload"
  /\ IF ok
     THEN /\ uvPc' = "check"
          /\ UNCHANGED <<file, isUploading, progress, error, intervals, resetPending,
                         uvReturned, uploadCalls>>
     ELSE uploadThrew
  /\ UNCHANGED lastCheck
  /\ UNCHANGED <<viewVars, normVars, pollVars, chatVars, apiVars>>

\* the first check has answered: return uploadedDoc when it has financial data, else
\* verifyDocumentFinancialData(id, true), which starts with a check of its own
uvChecked(docInfo) ==
  /\ uvPc = "check"
  /\ lastCheck' = checked(docInfo)
  /\ IF checkDocumentFinancialData(docInfo).hasFinancialData
     THEN uploadReturned("uploadedDoc")
     ELSE /\ uvPc' = "verifyCheck"
          /\ UNCHANGED <<file, isUploading, progress, error, intervals, resetPending,
                         uvReturned, uploadCalls>>
  /\ UNCHANGED <<viewVars, normVars, pollVars, chatVars, apiVars>>

\* the check of verifyDocumentFinancialData has answered: success when it has financial
\* data (then the 2000 ms wait), else POST /documents/{id}/process
uvVerifyChecked(docInfo) ==
  /\ uvPc = "verifyCheck"
  /\ lastCheck' = checked(docInfo)
  /\ uvPc' = IF checkDocumentFinancialData(docInfo).hasFinancialData
             THEN "wait" ELSE "process"
  /\ UNCHANGED <<file, isUploading, progress, error, intervals, resetPending,
                 uvReturned, uploadCalls>>
  /\ UNCHANGED <<viewVars, normVars, pollVars, chatVars, apiVars>>

\* the process request has answered: success, or a failure that returns uploadedDoc
uvProcessed(ok) ==
  /\ uvPc = "process"
  /\ IF ok
     THEN /\ uvPc' = "wait"
          /\ UNCHANGED <<file, isUploading, progress, error, intervals, resetPending,
                         uvReturned, uploadCalls>>
     ELSE uploadReturned("uploadedDoc")
  /\ UNCHANGED lastCheck
  /\ UNCHANGED <<viewVars, normVars, pollVars, chatVars, apiVars>>

\* the 2000 ms are over: the updated document is fetched
uvWaited ==
  /\ uvPc = "wait"
  /\ uvPc' = "refetch"
  /\ UNCHANGED <<file, isUploading, progress, error, intervals, resetPending,
                 lastCheck, uvReturned, uploadCalls>>
  /\ UNCHANGED <<viewVars, normVars, pollVars, chatVars, apiVars>>

\* the fetch has answered: the final check is awaited, or uploadedDoc is the fallback
uvRefetched(ok) ==
  /\ uvPc = "refetch"
  /\ IF ok
     THEN /\ uvPc' = "finalCheck"
          /\ UNCHANGED <<file, isUploading, progress, error, intervals, resetPending,
                         uvReturned, uploadCalls>>
     ELSE uploadReturned("uploadedDoc")
  /\ UNCHANGED lastCheck
  /\ UNCHANGED <<viewVars, normVars, pollVars, chatVars, apiVars>>

\* the final check has answered: updatedDoc is returned whatever it says
uvFinalChecked(docInfo) ==
  /\ uvPc = "finalCheck"
  /\ lastCheck' = checked(docInfo)
  /\ uploadReturned("updatedDoc")
  /\ UNCHANGED <<viewVars, normVars, pollVars, chatVars, apiVars>>

\* the 1000 ms reset timer of a finished upload fires
resetForm ==
  /\ resetPending
  /\ file' = NoFile
  /\ progress' = 0
  /\ isUploading' = FALSE
  /\ resetPending' = FALSE
  /\ UNCHANGED <<error, intervals, uvPc, lastCheck, uvReturned, uploadCalls>>
  /\ UNCHANGED <<viewVars, normVars, pollVars, chatVars, apiVars>>

UploadNext ==
  \/ \E selectedFile \in Files \cup {NoFile} : handleFileChange(selectedFile)
  \/ cancelFile
  \/ handleUpload
  \/ progressTick
  \/ \E ok \in BOOLEAN : uvUploaded(ok)
  \/ \E docInfo \in DocInfo : uvChecked(docInfo)
  \/ \E docInfo \in DocInfo : uvVerifyChecked(docInfo)
  \/ \E ok \in BOOLEAN : uvProcessed(ok)
  \/ uvWaited
  \/ \E ok \in BOOLEAN : uvRefetched(ok)
  \/ \E docInfo \in DocInfo : uvFinalChecked(docInfo)
  \/ resetForm

SpecUpload == Init /\ [][UploadNext]_vars

(* ------------------------ the chat of the workspace ------------------- *)
(* Workspace (part_002): initSession and handleSendMessage, called through  *)
(* ChatInterface.handleSubmit (PDFViewer.tsx:259-277).                      *)

\* messages sent in one behaviour
MaxSend == 2

\* a message of the list: its role, what it is, and the send it belongs to
message(role, kind, send) == [role |-> role, kind |-> kind, send |-> send]

\* createConversation has answered: setSessionId on success; finally setIsLoading(false)
sessionCreated(ok) ==
  /\ initPending
  /\ initPending' = FALSE
  /\ sessionId' = IF ok THEN "session" ELSE sessionId
  /\ isLoading' = FALSE
  /\ UNCHANGED <<messages, inputValue, isSubmitting, sendPending, sends, mockTimers>>
  /\ UNCHANGED <<selectedDocument, showUploadForm, uploadErrors>>
  /\ UNCHANGED <<viewVars, normVars, pollVars, uploadVars, apiVars>>

\* the user types into the textarea (disabled while submitting)
typeInput(nonBlank) ==
  /\ ~isSubmitting
  /\ inputValue' = nonBlank
  /\ UNCHANGED <<messages, isLoading, sessionId, initPending, isSubmitting,
                 sendPending, sends, mockTimers>>
  /\ UNCHANGED <<selectedDocument, showUploadForm, uploadErrors>>
  /\ UNCHANGED <<viewVars, normVars, pollVars, uploadVars, apiVars>>

\* the sending, had the user's message been added only once the request is answered
handleSubmitMessageLater ==
  /\ inputValue
  /\ ~isSubmitting
  /\ sends < MaxSend
  /\ sends' = sends + 1
  /\ IF sessionId # "null"
     THEN /\ messages' = messages
          /\ isLoading' = TRUE
          /\ sendPending' = TRUE
          /\ isSubmitting' = TRUE
          /\ UNCHANGED <<inputValue, mockTimers>>
     ELSE /\ messages' = Append(messages, message("user", "text", sends + 1))
          /\ mockTimers' = mockTimers \cup {sends + 1}
          /\ isLoading' = FALSE
          /\ inputValue' = FALSE
          /\ isSubmitting' = FALSE
          /\ UNCHANGED sendPending
  /\ UNCHANGED <<sessionId, initPending>>
  /\ UNCHANGED <<selectedDocument, showUploadForm, uploadErrors>>
  /\ UNCHANGED <<viewVars, normVars, pollVars, uploadVars, apiVars>>

\* Enter or the send button: handleSubmit returns for a blank text or while submitting;
\* else setIsSubmitting(true) and handleSendMessage(inputValue), which adds the user's
\* message, sets the loading indicator and, with a session, awaits sendMessage; without
\* one it sets the mock-response timer, runs its finally and returns, so that
\* handleSubmit clears the text and isSubmitting
handleSubmit ==
  /\ inputValue
  /\ ~isSubmitting
  /\ sends < MaxSend
  /\ sends' = sends + 1
  /\ messages' = Append(messages, message("user", "text", sends + 1))
  /\ IF sessionId # "null"
     THEN /\ isLoading' = TRUE
          /\ sendPending' = TRUE
          /\ isSubmitting' = TRUE
          /\ UNCHANGED <<inputValue, mockTimers>>
     ELSE /\ mockTimers' = mockTimers \cup {sends + 1}
          /\ isLoading' = FALSE
          /\ inputValue' = FALSE
          /\ isSubmitting' = FALSE
          /\ UNCHANGED sendPending
  /\ UNCHANGED <<sessionId, initPending>>
  /\ UNCHANGED <<selectedDocument, showUploadForm, uploadErrors>>
  /\ UNCHANGED <<viewVars, normVars, pollVars, uploadVars, apiVars>>

\* the answer, had handleSubmit reset isSubmitting after its await and not in a finally
\* while the owner's handler let the error of a failed request through
sendAnsweredWithoutFinally(ok) ==
  /\ sendPending
  /\ sendPending' = FALSE
  /\ messages' = Append(messages,
                        IF ok THEN message("assistant", "response", sends)
                        ELSE message("system", "error", sends))
  /\ isLoading' = FALSE
  /\ inputValue' = (IF ok THEN FALSE ELSE inputValue)
  /\ isSubmitting' = (IF ok THEN FALSE ELSE isSubmitting)
  /\ UNCHANGED <<sessionId, initPending, sends, mockTimers>>
  /\ UNCHANGED <<selectedDocument, showUploadForm, uploadErrors>>
  /\ UNCHANGED <<viewVars, normVars, pollVars, uploadVars, apiVars>>

\* sendMessage has answered: the response, or in the catch a system message, is added;
\* finally setIsLoading(false); handleSubmit then clears the text and isSubmitting
sendAnswered(ok) ==
  /\ sendPending
  /\ sendPending' = FALSE
  /\ messages' = Append(messages,
                        IF ok THEN message("assistant", "response", sends)
                        ELSE message("system", "error", sends))
  /\ isLoading' = FALSE
  /\ inputValue' = FALSE
  /\ isSubmitting' = FALSE
  /\ UNCHANGED <<sessionId, initPending, sends, mockTimers>>
  /\ UNCHANGED <<selectedDocument, showUploadForm, uploadErrors>>
  /\ UNCHANGED <<viewVars, normVars, pollVars, uploadVars, apiVars>>

\* the timer of a send without session fires: the mock response is added
mockResponse(send) ==
  /\ send \in mockTimers
  /\ mockTimers' = mockTimers \ {send}
  /\ messages' = Append(messages, message("assistant", "mock", send))
  /\ UNCHANGED <<isLoading, sessionId, initPending, inputValue, isSubmitting,
                 sendPending, sends>>
  /\ UNCHANGED <<selectedDocument, showUploadForm, uploadErrors>>
  /\ UNCHANGED <<viewVars, normVars, pollVars, uploadVars, apiVars>>

\* failed uploads reported in one behaviour
MaxUploadErrors == 1

\* an "Upload Document" button (rendered while no document is selected)
openUploadForm ==
  /\ selectedDocument = NoDoc
  /\ ~showUploadForm
  /\ showUploadForm' = TRUE
  /\ UNCHANGED <<messages, isLoading, sessionId, initPending, inputValue, isSubmitting,
                 sendPending, sends, mockTimers, selectedDocument, uploadErrors>>
  /\ UNCHANGED <<viewVars, normVars, pollVars, uploadVars, apiVars>>

\* the Cancel button under the upload form
closeUploadForm ==
  /\ showUploadForm
  /\ showUploadForm' = FALSE
  /\ UNCHANGED <<messages, isLoading, sessionId, initPending, inputValue, isSubmitting,
                 sendPending, sends, mockTimers, selectedDocument, uploadErrors>>
  /\ UNCHANGED <<viewVars, normVars, pollVars, uploadVars, apiVars>>

\* the upload form reports a finished upload
handleUploadSuccess(d) ==
  /\ showUploadForm
  /\ selectedDocument' = d
  /\ showUploadForm' = FALSE
  /\ messages' = Append(messages, message("system", "uploadSuccess", 0))
  /\ UNCHANGED <<isLoading, sessionId, initPending, inputValue, isSubmitting,
                 sendPending, sends, mockTimers, uploadErrors>>
  /\ UNCHANGED <<viewVars, normVars, pollVars, uploadVars, apiVars>>

\* the report of a failed upload, had it set the list to the notice alone
handleUploadErrorReplacing ==
  /\ showUploadForm
  /\ uploadErrors < MaxUploadErrors
  /\ uploadErrors' = uploadErrors + 1
  /\ messages' = <<message("system", "uploadError", 0)>>
  /\ UNCHANGED <<isLoading, sessionId, initPending, inputValue, isSubmitting,
                 sendPending, sends, mockTimers, selectedDocument, showUploadForm>>
  /\ UNCHANGED <<viewVars, normVars, pollVars, uploadVars, apiVars>>

\* the upload form reports a failed upload
handleUploadError ==
  /\ showUploadForm
  /\ uploadErrors < MaxUploadErrors
  /\ uploadErrors' = uploadErrors + 1
  /\ messages' = Append(messages, message("system", "uploadError", 0))
  /\ UNCHANGED <<isLoading, sessionId, initPending, inputValue, isSubmitting,
                 sendPending, sends, mockTimers, selectedDocument, showUploadForm>>
  /\ UNCHANGED <<viewVars, normVars, pollVars, uploadVars, apiVars>>

ChatNext ==
  \/ openUploadForm
  \/ closeUploadForm
  \/ \E d \in Docs : handleUploadSuccess(d)
  \/ handleUploadError
  \/ \E ok \in BOOLEAN : sessionCreated(ok)
  \/ \E nonBlank \in BOOLEAN : typeInput(nonBlank)
  \/ handleSubmit
  \/ \E ok \in BOOLEAN : sendAnswered(ok)
  \/ \E send \in 1..MaxSend : mockResponse(send)

SpecChat == Init /\ [][ChatNext]_vars

(* -------------------- requests of the conversation API ----------------- *)
(* ConversationApiService.request (conversation.ts): the URL and the        *)
(* RequestInit it builds, and what it returns or throws for each answer.    *)

\* the characters of '/api'
Api == <<"/", "a", "p", "i">>

\* values of NEXT_PUBLIC_API_BASE_URL: unset, ending with '/api', ending with '/api/'
BaseUrls == {Host, Host \o Api, Host \o Api \o <<"/">>}

\* endpoints: '/c', 'c', '/api/c', 'api/c', '/apis', with "c" for a path segment
Endpoints ==
  { <<"/", "c">>, <<"c">>, Api \o <<"/", "c">>, <<"a", "p", "i", "/", "c">>, Api \o <<"s">> }

Methods == {"GET", "POST"}

\* what fetch and the body of the response can be
Answers ==
  {"ok", "okNotJson", "rejected", "detailString", "detailArray", "detailOther",
   "noDetail", "text", "emptyText"}

\* String.prototype.startsWith
startsWith(s, prefix) ==
  /\ Len(s) >= Len(prefix)
  /\ SubSeq(s, 1, Len(prefix)) = prefix

\* String.prototype.endsWith
endsWith(s, suffix) ==
  /\ Len(s) >= Len(suffix)
  /\ SubSeq(s, Len(s) - Len(suffix) + 1, Len(s)) = suffix

\* the endpoint with its leading slash ensured
withSlash(endpointArg) ==
  IF ~startsWith(endpointArg, <<"/">>) THEN <<"/">> \o endpointArg ELSE endpointArg

\* the URL request hands to fetch
buildUrl(base, endpointArg) ==
  IF endsWith(base, Api) \/ startsWith(withSlash(endpointArg), Api)
  THEN base \o withSlash(endpointArg)
  ELSE base \o Api \o withSlash(endpointArg)

\* the environment sets the base URL before the module is loaded
RequestInit ==
  /\ ViewInit
  /\ raw = <<>>
  /\ extractedCitations = <<>>
  /\ extracted = FALSE
  /\ converted = <<>>
  /\ PollInit
  /\ UploadInit
  /\ ChatInit
  /\ API_BASE_URL \in BaseUrls
  /\ ReqIdle
  /\ VerifyIdle
  /\ RunIdle

\* request(endpoint, method, data, formData) up to its await of fetch
request(endpointArg, method, data, formData) ==
  /\ reqPc = "idle"
  /\ endpoint' = withSlash(endpointArg)
  /\ finalUrl' = buildUrl(API_BASE_URL, endpointArg)
  /\ options' = [method |-> method,
                 contentType |-> data /\ ~formData,
                 body |-> IF formData THEN "formData" ELSE IF data THEN "json" ELSE "none"]
  /\ reqPc' = "fetch"
  /\ reqResult' = "none"
  /\ UNCHANGED API_BASE_URL
  /\ UNCHANGED <<viewVars, normVars, pollVars, uploadVars, chatVars, verifyVars, runVars>>

\* fetch has settled: request returns the parsed body or throws an Error
fetched(answer) ==
  /\ reqPc = "fetch"
  /\ reqPc' = "idle"
  /\ reqResult' =
       CASE answer = "ok"           -> "returned"
         [] answer = "okNotJson"    -> "threw: json() failed"
         [] answer = "rejected"     -> "threw: fetch failed"
         [] answer = "detailString" -> "threw: detail"
         [] answer = "detailArray"  -> "threw: loc: msg"
         [] answer = "detailOther"  -> "threw: JSON of detail"
         [] answer = "noDetail"     -> "threw: JSON of body"
         [] answer = "text"         -> "threw: text"
         [] answer = "emptyText"    -> "threw: API error: status"
  /\ UNCHANGED <<API_BASE_URL, endpoint, finalUrl, options>>
  /\ UNCHANGED <<viewVars, normVars, pollVars, uploadVars, chatVars, verifyVars, runVars>>

RequestNext ==
  \/ \E endpointArg \in Endpoints, method \in Methods, data \in BOOLEAN, formData \in BOOLEAN :
       request(endpointArg, method, data, formData)
  \/ \E answer \in Answers : fetched(answer)

SpecRequest == RequestInit /\ [][RequestNext]_vars

(* ------------- verification of a document's financial data ------------- *)
(* documentsApi.verifyDocumentFinancialData (part_002) called on its own,   *)
(* with either value of retryExtraction.                                    *)

PostAnswers == {"ok", "notOk", "rejected"}

\* verifyDocumentFinancialData(documentId, retryExtraction) up to the await of its check
verifyDocumentFinancialData(retry) ==
  /\ vfPc = "idle"
  /\ vfPc' = "check"
  /\ retryExtraction' = retry
  /\ checkedDocInfo' = NoDocInfo
  /\ checkResult' = NoCheck
  /\ processPosts' = 0
  /\ verifyResult' = NoResult
  /\ UNCHANGED <<viewVars, normVars, pollVars, uploadVars, chatVars, reqVars, runVars>>

\* the check, had verifyDocumentFinancialData not looked at retryExtraction
verifyCheckedAlwaysRetrying(docInfo) ==
  /\ vfPc = "check"
  /\ checkedDocInfo' = docInfo
  /\ checkResult' = checkDocumentFinancialData(docInfo)
  /\ IF checkResult'.hasFinancialData
     THEN /\ verifyResult' = [success |-> TRUE,
                              message |-> "Document already has valid financial data"]
          /\ vfPc' = "idle"
          /\ UNCHANGED processPosts
     ELSE /\ processPosts' = processPosts + 1
          /\ vfPc' = "process"
          /\ UNCHANGED verifyResult
  /\ UNCHANGED retryExtraction
  /\ UNCHANGED <<viewVars, normVars, pollVars, uploadVars, chatVars, reqVars, runVars>>

\* checkDocumentFinancialData has returned: the function returns, or sends the POST
verifyChecked(docInfo) ==
  /\ vfPc = "check"
  /\ checkedDocInfo' = docInfo
  /\ checkResult' = checkDocumentFinancialData(docInfo)
  /\ IF checkResult'.hasFinancialData
     THEN /\ verifyResult' = [success |-> TRUE,
                              message |-> "Document already has valid financial data"]
          /\ vfPc' = "idle"
          /\ UNCHANGED processPosts
     ELSE IF ~retryExtraction
     THEN /\ verifyResult' = [success |-> FALSE, message |-> checkResult'.diagnosis]
          /\ vfPc' = "idle"
          /\ UNCHANGED processPosts
     ELSE /\ processPosts' = processPosts + 1
          /\ vfPc' = "process"
          /\ UNCHANGED verifyResult
  /\ UNCHANGED retryExtraction
  /\ UNCHANGED <<viewVars, normVars, pollVars, uploadVars, chatVars, reqVars, runVars>>

\* the POST has settled: a response that is not ok, its unreadable body and a
\* rejected fetch all end in the catch
verifyProcessed(answer) ==
  /\ vfPc = "process"
  /\ vfPc' = "idle"
  /\ verifyResult' =
       IF answer = "ok"
       THEN [success |-> TRUE, message |-> "Financial data re-extraction triggered"]
       ELSE [success |-> FALSE, message |-> "Error during verification"]
  /\ UNCHANGED <<retryExtraction, checkedDocInfo, checkResult, processPosts>>
  /\ UNCHANGED <<viewVars, normVars, pollVars, uploadVars, chatVars, reqVars, runVars>>

VerifyNext ==
  \/ \E retry \in BOOLEAN : verifyDocumentFinancialData(retry)
  \/ \E docInfo \in DocInfo : verifyChecked(docInfo)
  \/ \E answer \in PostAnswers : verifyProcessed(answer)

SpecVerify == Init /\ [][VerifyNext]_vars

(* --------------------------- running an analysis ------------------------ *)
(* analysisApi.runAnalysis (part_002): the pre-check of the documents, the  *)
(* diagnostic result, and the request to /analysis/run.                     *)

\* longest list of document ids passed to runAnalysis
MaxIds == 3

\* lists of distinct document ids
IdLists ==
  {ids \in SeqsUpTo(1..MaxIds, MaxIds) :
     \A i, j \in 1..Len(ids) : i # j => ids[i] # ids[j]}

\* what GET /documents/{id} gives the pre-check: a rejected request, or a document
\* without extractedData, without financial_data, with an empty or a filled one
PreCheckAnswers == {"rejected", "noExtractedData", "absent", "empty", "filled"}

\* what POST /analysis/run gives: a result with or without insights, or an error
RunAnswers == {"ok", "okNoInsights", "failed"}

\* past the pre-check, had the request always carried every id passed in
afterPreCheckAllIds(withData, withoutData) ==
  IF Len(withData) = 0 /\ Len(withoutData) > 0
  THEN /\ analysisResult' = [kind |-> "diagnostic", documentIds |-> documentIds',
                             metrics |-> "empty", ratios |-> "empty", note |-> 0]
       /\ raPc' = "idle"
       /\ analysisRequest' = NoRequest
  ELSE /\ analysisRequest' = [sent |-> TRUE, document_ids |-> documentIds']
       /\ raPc' = "post"
       /\ analysisResult' = NoAnalysis

\* past the pre-check: the diagnostic result is returned, or the request is posted
afterPreCheck(withData, withoutData) ==
  IF Len(withData) = 0 /\ Len(withoutData) > 0
  THEN /\ analysisResult' = [kind |-> "diagnostic", documentIds |-> documentIds',
                             metrics |-> "empty", ratios |-> "empty", note |-> 0]
       /\ raPc' = "idle"
       /\ analysisRequest' = NoRequest
  ELSE /\ analysisRequest' =
            [sent |-> TRUE,
             document_ids |-> IF Len(withData) > 0 THEN withData ELSE documentIds']
       /\ raPc' = "post"
       /\ analysisResult' = NoAnalysis

\* runAnalysis(documentIds, ...) up to its first await
runAnalysis(ids) ==
  /\ raPc = "idle"
  /\ documentIds' = ids
  /\ checkedCount' = 0
  /\ documentsWithFinancialData' = <<>>
  /\ documentsWithoutFinancialData' = <<>>
  /\ IF Len(ids) > 0
     THEN /\ raPc' = "precheck"
          /\ analysisRequest' = NoRequest
          /\ analysisResult' = NoAnalysis
     ELSE afterPreCheck(<<>>, <<>>)
  /\ UNCHANGED <<viewVars, normVars, pollVars, uploadVars, chatVars, reqVars, verifyVars>>

\* GET /documents/{docId} of the loop has settled: the document joins one of the two
\* lists and the loop goes on, or the request was rejected and the catch ends the loop
raPreChecked(answer) ==
  /\ raPc = "precheck"
  /\ LET docId == documentIds[checkedCount + 1]
         withData == IF answer = "filled"
                     THEN Append(documentsWithFinancialData, docId)
                     ELSE documentsWithFinancialData
         withoutData == IF answer \in {"noExtractedData", "absent", "empty"}
                        THEN Append(documentsWithoutFinancialData, docId)
                        ELSE documentsWithoutFinancialData
     IN  /\ documentsWithFinancialData' = withData
         /\ documentsWithoutFinancialData' = withoutData
         /\ checkedCount' = checkedCount + 1
         /\ UNCHANGED documentIds
         /\ IF answer = "rejected" \/ checkedCount + 1 = Len(documentIds)
            THEN afterPreCheck(withData, withoutData)
            ELSE UNCHANGED <<raPc, analysisRequest, analysisResult>>
  /\ UNCHANGED <<viewVars, normVars, pollVars, uploadVars, chatVars, reqVars, verifyVars>>

\* POST /analysis/run has settled: the response is returned, with the note about the
\* excluded documents put first when it has insights, or the error is thrown on
raPosted(answer) ==
  /\ raPc = "post"
  /\ raPc' = "idle"
  /\ analysisResult' =
       IF answer = "failed"
       THEN [kind |-> "threw", documentIds |-> <<>>, metrics |-> "none",
             ratios |-> "none", note |-> 0]
       ELSE [kind |-> "response", documentIds |-> analysisRequest.document_ids,
             metrics |-> "response", ratios |-> "response",
             note |-> IF Len(documentsWithoutFinancialData) > 0 /\ answer = "ok"
                      THEN Len(documentsWithoutFinancialData) ELSE 0]
  /\ UNCHANGED <<documentIds, checkedCount, documentsWithFinancialData,
                 documentsWithoutFinancialData, analysisRequest>>
  /\ UNCHANGED <<viewVars, normVars, pollVars, uploadVars, chatVars, reqVars, verifyVars>>

RunNext ==
  \/ \E ids \in IdLists : runAnalysis(ids)
  \/ \E answer \in PreCheckAnswers : raPreChecked(answer)
  \/ \E answer \in RunAnswers : raPosted(answer)

SpecRun == Init /\ [][RunNext]_vars

(* --------------- properties of the citation extraction ---------------- *)

\* the conversions of the raw citations, one per raw citation, in input order
allConverted == [i \in 1..Len(raw) |-> _convert_citation_from_dict(raw[i])]

accepted(citation_dict) == citation_dict # EmptyDict

\* start and end of a raw citation in the unit of its kind, absent keys defaulted
rangeStart(citation) == get(citation.start, IF citation.type = "page_location" THEN 1 ELSE 0)
rangeEnd(citation) == get(citation.end, IF citation.type = "page_location" THEN 1 ELSE 0)

recognized(citation) == citation.isDict /\ citation.type \in Kinds

degenerate(citation) == recognized(citation) /\ rangeEnd(citation) <= rangeStart(citation)

\* position of the first entry of seq equal to x
firstIndex(seq, x) == CHOOSE i \in 1..Len(seq) : seq[i] = x /\ \A j \in 1..(i - 1) : seq[j] # x

\* C4: after extraction no citation with an end not above its start is in the list,
\* and for a batch of recognized kinds the number of citations in the list is the
\* number of raw citations minus the number of those dropped for their range.
C4_DegenerateRangesDropped ==
  extracted =>
    /\ \A c \in Range(extractedCitations) : c.type \in Kinds => c.end > c.start
    /\ (\A i \in 1..Len(raw) : recognized(raw[i])) =>
         Len(extractedCitations) =
           Len(raw) - Cardinality({i \in 1..Len(raw) : degenerate(raw[i])})

\* C5: after extraction no citation of a missing or unrecognized kind is in the list,
\* and every raw citation of a recognized kind with a proper range is.
C5_UnrecognizedKindRejected ==
  extracted =>
    /\ \A c \in Range(extractedCitations) : c.type \in Kinds
    /\ \A i \in 1..Len(raw) :
         (recognized(raw[i]) /\ ~degenerate(raw[i])) =>
           _convert_citation_from_dict(raw[i]) \in Range(extractedCitations)

aiPart(list, users) == SubSeq(list, Len(users) + 1, Len(list))

\* C1: a step that applies an AI highlight batch (any batch, the empty one included)
\* leaves every user highlight of the projected list in the list, in its place and
\* with the same id and page; only the entries after them change.
C1_UserHighlightsKept ==
  [][appliedSeq' # appliedSeq =>
       /\ Len(allHighlights') = Len(userHighlights) + Len(aiHighlights')
       /\ SubSeq(allHighlights', 1, Len(userHighlights)) = userHighlights]_vars

\* C1 witness: a non-empty batch was applied while a user highlight was in the list
C1_Witness ==
  /\ appliedSeq > 0
  /\ aiHighlights # <<>>
  /\ Len(allHighlights) > Len(aiHighlights)

\* C2: a batch that resolves after a batch with a higher sequence number has been
\* applied is discarded: it leaves the projected AI highlights as they are.
C2_StaleBatchDiscarded ==
  [][\A f \in inflight :
       (appliedSeq' = f.seq /\ f.seq < appliedSeq) => aiHighlights' = aiHighlights]_vars

\* C3: the result of a fetch started for a document is handed to the view only while
\* that document is still the active one.
C3_OtherDocumentDiscarded ==
  [][\A f \in inflight : appliedSeq' = f.seq => f.doc = document]_vars

C9_OneHighlightPerCitation ==
  /\ Len(aiHighlights) = Len(lastBatch)
  /\ \A i \in 1..Len(lastBatch) :
       /\ i <= Len(aiHighlights)
       /\ aiHighlights[i].id = lastBatch[i].highlightId
       /\ aiHighlights[i].pageNumber = lastBatch[i].page
       /\ \A j \in 1..Len(lastBatch) :
            lastBatch[j] # lastBatch[i] => lastBatch[j].highlightId # aiHighlights[i].id
       /\ LET k == findHighlight(lastBatch[i].highlightId)
          IN  k # 0 /\ allHighlights[k].pageNumber = lastBatch[i].page

\* C10: no user highlight in the list is linked to a citation of the applied batch or
\* taken for an AI highlight by the renderer, whatever ids the highlights carry.
C10_OriginsApart ==
  \A i \in 1..Len(userHighlights) :
    /\ ~isAIHighlight(userHighlights[i])
    /\ \A j \in 1..Len(lastBatch) : lastBatch[j].highlightId # userHighlights[i].id

\* C11: a step that changes the active document leaves no user highlight in the
\* projected list (the highlights there were all created on earlier documents).
C11_UserHighlightsClearedOnDocumentChange ==
  [][document' # document => userHighlights' = <<>>]_vars

\* geometry of a citation can be resolved: it has at least one rectangle
resolvable(citation) == citation.rects > 0

\* C12: the AI highlights are those of the citations of the applied batch whose
\* geometry can be resolved, in batch order; a citation without rectangles has none.
C12_UnresolvedGeometryOmitted ==
  appliedSeq > 0 =>
    aiHighlights = highlightsFromCitations(SelectSeq(lastBatch, resolvable))

\* highlightId is the id of a highlight of the projected list
inList(highlightId) == \E i \in 1..Len(allHighlights) : allHighlights[i].id = highlightId

C15_UserAndBatchCoexist ==
  /\ Len(allHighlights) = Len(createdCitations) + Len(lastBatch)
  /\ \A k \in 1..Len(createdCitations) :
       /\ allHighlights[k].id = createdCitations[k].highlightId
       /\ allHighlights[k].pageNumber = createdCitations[k].page
  /\ \A k \in 1..Len(lastBatch) :
       allHighlights[Len(createdCitations) + k] = convertCitationToHighlight(lastBatch[k])

\* C15 witness: of one fetch only, the user saved a highlight after the document was
\* shown and the non-empty batch of that fetch has arrived
C15_Witness ==
  /\ nextSeq = 2
  /\ appliedSeq = 1
  /\ inflight = {}
  /\ Len(userHighlights) = 1
  /\ Len(lastBatch) > 0

\* citations are arriving for the document that is loaded in the view
refreshing ==
  /\ document # NoDoc
  /\ pdfUrl = document
  /\ \E f \in inflight : f.doc = document /\ f.stage = "citations"

\* C16: while citations are arriving for the loaded document the viewer with its
\* "Save Highlight" tip is rendered, and the AI highlights are at every moment the
\* highlights of one whole batch.
C16_RefreshingKeepsCreation ==
  /\ refreshing => viewerShown
  /\ aiHighlights = highlightsFromCitations(lastBatch)

(* ------------------- properties of the polling loop ------------------- *)

\* C17 as stated: a call whose loop has run ends with a document or with the
\* 'Document processing timed out' error.
C17_EndsWithDocumentOrTimeout ==
  (pollPc = "done" /\ statusChecks > 0) => pollOutcome \in {"document", "timeout"}

\* C17 as amended: a call that was made comes to an end; the loop makes at most
\* maxAttempts status checks, each after its own attempt was counted; a document the
\* call ends with was processed to completed or failed, the time-out error comes after
\* maxAttempts checks without such a document, and the only other end of the loop is
\* the error of a failed status check.
C17_PollingTerminates ==
  /\ [](/\ statusChecks <= attempts
        /\ attempts <= maxAttempts
        /\ (pollPc = "done" /\ statusChecks > 0) =>
              /\ pollOutcome \in {"document", "timeout", "statusError"}
              /\ pollOutcome = "document" => polledDocument \in {"completed", "failed"}
              /\ pollOutcome = "timeout" =>
                    polledDocument = "null" /\ statusChecks = maxAttempts)
  /\ (pollPc # "idle") ~> (pollPc = "done")

\* C17 witness: maxAttempts status checks were made and the call ended with the
\* time-out error
C17_Witness ==
  /\ pollPc = "done"
  /\ pollOutcome = "timeout"
  /\ statusChecks = maxAttempts

(* -------------------- properties of the upload form ------------------- *)

\* C18: once uploadAndVerifyDocument has returned a document, the latest
\* financial-data check made for it was positive.
C18_ReturnedDocumentVerified ==
  uvReturned # "none" => lastCheck = "positive"

\* a PDF of at most 10 MB
withinLimits(f) == f.type = "application/pdf" /\ f.size <= 10 * 1024 * 1024

\* C20: the file held and every file passed to the upload call is a PDF of at most
\* 10 MB, and selecting a file that is not sets an error and leaves the held file as
\* it was.
C20_OnlyPdfWithinSizeHeld ==
  /\ [](/\ file # NoFile => withinLimits(file)
        /\ \A i \in 1..Len(uploadCalls) : withinLimits(uploadCalls[i]))
  /\ [][\A selectedFile \in Files :
          (handleFileChange(selectedFile) /\ ~withinLimits(selectedFile)) =>
            (file' = file /\ error' # "null")]_vars

\* C20 witness: a file was passed to the upload call, and a later selection was turned
\* down with an error
C20_Witness ==
  /\ Len(uploadCalls) > 0
  /\ file = NoFile
  /\ error \in {"Only PDF files are supported", "File size must be less than 10MB"}

(* ------------------------ properties of the chat ---------------------- *)

\* C19: a send adds the user's message to the end of the list in the step that makes
\* the request and switches the loading indicator on; the indicator is on while the
\* request is in flight; the answer adds exactly one message to the end of the list,
\* the assistant's response on success and a system error message on failure, and
\* switches the indicator off.
C19_SendAppendsAndAnswers ==
  /\ [](sendPending => isLoading)
  /\ [][/\ sends' # sends =>
             /\ messages' = Append(messages, message("user", "text", sends'))
             /\ sendPending' => isLoading'
        /\ \A ok \in BOOLEAN :
             sendAnswered(ok) =>
               /\ Len(messages') = Len(messages) + 1
               /\ SubSeq(messages', 1, Len(messages)) = messages
               /\ messages'[Len(messages')].role = (IF ok THEN "assistant" ELSE "system")
               /\ messages'[Len(messages')].send = sends
               /\ ~isLoading']_vars

\* C19 witness: two messages were sent with a session, the first was answered by a
\* response and the second by an error, and the indicator is off
C19_Witness ==
  /\ Len(messages) = 4
  /\ messages[2].kind = "response"
  /\ messages[4].kind = "error"
  /\ ~sendPending
  /\ ~isLoading

(* ----------------------- properties of the progress -------------------- *)

\* C21: while uploadAndVerifyDocument is in flight the progress is at most 75 and a
\* step that leaves the upload in flight keeps the progress or adds 5 to it; a
\* progress above 75 is 100 and is shown only after uploadAndVerifyDocument returned
\* a document; the step in which the upload ends without a document sets the
\* progress to 0.
C21_ProgressBoundedUntilSuccess ==
  /\ [](uvPc # "idle" => progress <= 75)
  /\ [](progress > 75 => progress = 100 /\ uvReturned # "none" /\ resetPending)
  /\ [][/\ (uvPc # "idle" /\ uvPc' # "idle") => progress' \in {progress, progress + 5}
        /\ (uvPc # "idle" /\ uvPc' = "idle" /\ uvReturned' = "none") => progress' = 0]_vars

\* C21 witness: a first upload failed and left its interval running, the second
\* upload climbed to 75 while in flight and then returned a document
C21_Witness ==
  /\ Len(uploadCalls) = 2
  /\ intervals > 0
  /\ uvReturned # "none"
  /\ progress = 100

(* ----------------------- properties of the requests --------------------- *)

\* the URL has the segment 'api' twice in a row
duplicatedApi(url) ==
  \E i \in 1..Len(url) :
    /\ i + 7 <= Len(url)
    /\ SubSeq(url, i, i + 7) = Api \o Api
    /\ (i + 7 = Len(url) \/ url[i + 8] = "/")

\* C22: the URL request hands to fetch never has the segment '/api' twice in a row,
\* whatever the base URL and the endpoint are.
C22_NoDuplicatedApi == ~duplicatedApi(finalUrl)

(* -------------------- properties of the verification -------------------- *)

\* C23: a call of verifyDocumentFinancialData ends with a returned object; it sends
\* the POST to /documents/{id}/process at most once, and only with retryExtraction
\* true after a check without financial data; after a check with financial data it
\* has returned success and sent no POST; with retryExtraction false after a check
\* without financial data it has returned failure with the diagnosis of the check
\* and sent no POST; a POST that fails makes it return success false.
C23_PostOnlyOnRetryAfterNegativeCheck ==
  /\ [](/\ processPosts <= 1
        /\ processPosts > 0 => (retryExtraction /\ ~checkResult.hasFinancialData)
        /\ (vfPc = "idle" /\ checkResult # NoCheck) => verifyResult # NoResult
        /\ (vfPc = "idle" /\ checkResult.hasFinancialData) =>
             (verifyResult.success /\ processPosts = 0)
        /\ (vfPc = "idle" /\ checkResult # NoCheck /\ ~checkResult.hasFinancialData
              /\ ~retryExtraction) =>
             /\ verifyResult = [success |-> FALSE, message |-> checkResult.diagnosis]
             /\ processPosts = 0)
  /\ [][\A answer \in PostAnswers \ {"ok"} :
          verifyProcessed(answer) => ~verifyResult'.success]_vars

\* C23 witness: with retryExtraction true the check found no financial data, the
\* POST was sent and failed, and the call returned success false
C23_Witness ==
  /\ vfPc = "idle"
  /\ retryExtraction
  /\ processPosts = 1
  /\ ~checkResult.hasFinancialData
  /\ verifyResult = [success |-> FALSE, message |-> "Error during verification"]

\* C26: whenever the check returned hasFinancialData true, its diagnosis is none of
\* the three that report missing data (no extracted text, no financial_data field,
\* empty financial data); a failed request gives hasFinancialData false.
C26_CheckOutputsConsistent ==
  /\ ~checkedDocInfo.ok => ~checkResult.hasFinancialData
  /\ checkResult.hasFinancialData =>
       checkResult.diagnosis \notin {"Document has no extracted text",
                                     "Document has no financial_data field",
                                     "Document has an empty financial data structure"}

(* ----------------------- properties of the analysis --------------------- *)

C25_EveryIdAccountedFor ==
  analysisRequest.sent =>
    \A i \in 1..Len(documentIds) :
      \/ documentIds[i] \in Range(analysisRequest.document_ids)
      \/ documentIds[i] \in Range(documentsWithoutFinancialData)

(* ----------------------- properties of the submit ----------------------- *)

C28_MessagesAppendOnly ==
  /\ [](\A i \in 1..Len(messages) :
          (messages[i].role # "user" /\ messages[i].send > 0) =>
            \E j \in 1..(i - 1) : messages[j] = message("user", "text", messages[i].send))
  /\ [][messages' # messages =>
          /\ Len(messages') = Len(messages) + 1
          /\ SubSeq(messages', 1, Len(messages)) = messages]_vars

\* C28 witness: without a session, a first message, the notice of a failed upload, a
\* second message, and then the delayed mock response to the first message
C28_Witness ==
  /\ Len(messages) = 4
  /\ messages[1] = message("user", "text", 1)
  /\ messages[2].kind = "uploadError"
  /\ messages[3] = message("user", "text", 2)
  /\ messages[4] = message("assistant", "mock", 1)

=============================================================================
